---- MODULE Spec2Model ----
(***************************************************************************)
(* Verification model of che-incubator/dash-licenses.                      *)
(*                                                                         *)
(*  - SpecResolver : ChunkedDashLicensesProcessor.process (chunked oracle  *)
(*                   invocation with retries, merge of the chunk outputs). *)
(*  - SpecReport   : the bump-deps report pipeline of a package-manager    *)
(*                   adapter (exclusions, ledger parsing, report           *)
(*                   generation, exit code) followed by                    *)
(*                   PackageManagerBase.runBumpDeps / checkRestrictions /  *)
(*                   handleResults.                                        *)
(*  - SpecSplit    : the loop of splitIntoChunks, one iteration per step,   *)
(*                   for every batch size the entrypoint accepts.          *)
(*  - SpecLogger   : the Logger class of document/index.ts, used through  *)
(*                   the module-level logger and further instances.       *)
(*                                                                         *)
(* A JavaScript string that the code splits, trims, sorts or concatenates  *)
(* is a sequence of one-character strings; strings that are only stored    *)
(* and compared for equality (license, status, approval source) are TLA+   *)
(* strings.  File-system calls are assumed not to fail.                    *)
(***************************************************************************)
EXTENDS Integers, Sequences, FiniteSets, TLC

(***************************************************************************)
(* Bounds of the model.                                                    *)
(***************************************************************************)
\* largest batch size tried (BATCH_SIZE)
MaxBatch == 2
\* largest explicitly configured maxRetries option
MaxRetriesOpt == 2
\* longest dependency list handed to splitIntoChunks in SpecSplit
MaxDeps == 3
\* iterations of the splitting loop that are followed
MaxSplitSteps == MaxDeps + 1
\* Logger instances constructed besides the module-level logger
MaxLoggers == 2
\* addLog calls between two resets
MaxLogEntries == 2
\* reset calls
MaxResets == 1
\* incrementUnresolved calls on one Logger between two resets
MaxIncrements == 2

(***************************************************************************)
(* Strings.                                                                *)
(***************************************************************************)
\* UTF-16 code unit of a character (the characters the model uses)
Code(c) ==
  CASE c = " " -> 32
    [] c = "-" -> 45
    [] c = "/" -> 47
    [] c = "1" -> 49
    [] c = "2" -> 50
    [] c = "@" -> 64
    [] c = "a" -> 97
    [] c = "b" -> 98
    [] c = "c" -> 99
    [] c = "d" -> 100
    [] c = "e" -> 101
    [] c = "f" -> 102
    [] c = "g" -> 103
    [] c = "i" -> 105
    [] c = "j" -> 106
    [] c = "l" -> 108
    [] c = "m" -> 109
    [] c = "n" -> 110
    [] c = "p" -> 112
    [] c = "q" -> 113
    [] c = "r" -> 114
    [] c = "s" -> 115
    [] c = "t" -> 116
    [] c = "u" -> 117
    [] c = "v" -> 118
    [] OTHER -> 127

RECURSIVE StrLess(_, _)
\* s < t as JavaScript compares strings: by code units, a proper prefix first
StrLess(s, t) ==
  IF t = <<>> THEN FALSE
  ELSE IF s = <<>> THEN TRUE
  ELSE IF Code(Head(s)) < Code(Head(t)) THEN TRUE
  ELSE IF Code(Head(s)) > Code(Head(t)) THEN FALSE
  ELSE StrLess(Tail(s), Tail(t))

IsSpace(c) == c = " "

RECURSIVE TrimStart(_)
TrimStart(s) ==
  IF s = <<>> THEN <<>>
  ELSE IF IsSpace(Head(s)) THEN TrimStart(Tail(s))
  ELSE s

RECURSIVE TrimEnd(_)
TrimEnd(s) ==
  IF s = <<>> THEN <<>>
  ELSE IF IsSpace(s[Len(s)]) THEN TrimEnd(SubSeq(s, 1, Len(s) - 1))
  ELSE s

\* String.prototype.trim
Trim(s) == TrimEnd(TrimStart(s))

RECURSIVE InsertSorted(_, _)
InsertSorted(x, sorted) ==
  IF sorted = <<>> THEN <<x>>
  ELSE IF StrLess(x, Head(sorted)) THEN <<x>> \o sorted
  ELSE <<Head(sorted)>> \o InsertSorted(x, Tail(sorted))

RECURSIVE SortStrings(_)
\* Array.prototype.sort() without a comparator (stable, by code units)
SortStrings(arr) ==
  IF arr = <<>> THEN <<>>
  ELSE InsertSorted(arr[Len(arr)], SortStrings(SubSeq(arr, 1, Len(arr) - 1)))

RECURSIVE FilterNonEmpty(_)
\* .filter(line => line.length > 0)
FilterNonEmpty(arr) ==
  IF arr = <<>> THEN <<>>
  ELSE IF Len(Head(arr)) > 0 THEN <<Head(arr)>> \o FilterNonEmpty(Tail(arr))
  ELSE FilterNonEmpty(Tail(arr))

\* content.split('\n').map(line => line.trim()).filter(line => line.length > 0)
\* (a file's text is held as the sequence of its '\n'-separated lines)
TrimmedLines(content) ==
  FilterNonEmpty([k \in 1..Len(content) |-> Trim(content[k])])

RECURSIVE SumLen(_)
SumLen(arr) == IF arr = <<>> THEN 0 ELSE Len(Head(arr)) + SumLen(Tail(arr))

\* content.length of the text whose '\n'-separated lines are given
TextLength(content) == SumLen(content) + Len(content) - 1

(***************************************************************************)
(* State.                                                                  *)
(***************************************************************************)
VARIABLES
  \* ---- ChunkedDashLicensesProcessor ----
  rpc,            \* position inside process()
  parserOutput,   \* text printed by the parser script (lines)
  batchSize,      \* options.batchSize
  maxRetries,     \* this.maxRetries
  retryDelayMs,   \* this.retryDelayMs
  debug,          \* options.debug
  splitI,         \* splitIntoChunks: the loop variable i
  chunks,         \* const chunks
  chunkIdx,       \* loop variable i of process()
  tempFiles,      \* const tempFiles (a temp file is named by its chunkNum)
  attempt,        \* loop variable attempt of processChunkWithRetry()
  tmpFs,          \* the per-chunk output files `${outputFile}.chunk${n}.tmp`
  inputFs,        \* the per-chunk input files `${outputFile}.chunk${n}.tmp.input.tmp`
  outputFile,     \* the final DEPENDENCIES file at options.outputFile
  lastCall,       \* history: the latest oracle invocation
  invoked,        \* history: chunkNums the oracle has been invoked for
  waited,         \* history: milliseconds slept since the last invocation
  succeeded,      \* history: chunkNums for which processChunkWithRetry returned true
  exhausted,      \* history: chunkNums for which processChunkWithRetry returned false
  thrown,         \* the error process() rejected with
  ledgerWrites,   \* history: number of writes of the final DEPENDENCIES file
  \* ---- bump-deps script of an adapter, then PackageManagerBase ----
  bpc,            \* position in the bump-deps script / in PackageManagerBase.run
  adapter,        \* config.name: which bump-deps script runs
  check,          \* options.check (process.argv has --check)
  inProd,         \* production dependencies reported by the package manager
  inDev,          \* development dependencies reported by the package manager
  mvnFiles,       \* mvn: PROD_DEPENDENCIES and DEV_DEPENDENCIES
  dependenciesFile, \* TMP_DIR/DEPENDENCIES after generateDependencies
  prodDeps,       \* the production list handed to arrayToDocument
  devDeps,        \* the development list handed to arrayToDocument
  depsToCQ,       \* the approval map
  allDependenciesMap, \* the adapters' allDependencies Map (license metadata)
  logs,           \* Logger.logs
  unresolvedNumber, \* logger.unresolvedNumber of the module-level logger
  approvedLines,  \* parseDependenciesFile: the lines the second forEach visits
  lineIdx,        \* parseDependenciesFile: index of the next such line
  log,            \* parseDependenciesFile: let log
  numberUnusedExcludes, \* parseDependenciesFile: let numberUnusedExcludes
  events,         \* history: the steps of the script executed so far
  docs,           \* history: the arrayToDocument call of each report
  outFiles,       \* prod.md, dev.md and problems.md written by the script
  bumpExit,       \* exit status of the bump-deps process
  result,         \* PackageManagerResult {differProd, differDev, restricted}
  exitCode,       \* exit code of the package-manager process
  errors,         \* console.error messages of verifyDependenciesFile
  ledgerRead,     \* history: the fileData handed to parseDependenciesFile
  excludedIds,    \* history: the identifiers read from the exclusion files
  \* ---- entrypoint.sh around the package-manager process ----
  epc,            \* position in entrypoint.sh: the node process runs, or the script has exited
  projectDeps,    \* what the run has put under $DEPS_DIR of the mounted project
  \* ---- Logger ----
  loggers         \* the Logger instances constructed besides the module-level logger

resolverVars == <<rpc, splitI, parserOutput, batchSize, maxRetries, retryDelayMs, debug,
                  chunks, chunkIdx, tempFiles, attempt, tmpFs, inputFs, outputFile,
                  lastCall, invoked, waited, succeeded, exhausted, thrown,
                  ledgerWrites>>

reportVars == <<bpc, adapter, check, inProd, inDev, mvnFiles, dependenciesFile, prodDeps, devDeps,
                depsToCQ, allDependenciesMap, logs, unresolvedNumber,
                approvedLines, lineIdx, log, numberUnusedExcludes, events,
                docs, outFiles, bumpExit, result, exitCode, errors, ledgerRead,
                excludedIds, epc, projectDeps, loggers>>

vars == <<resolverVars, reportVars>>

(***************************************************************************)
(* Files.                                                                  *)
(***************************************************************************)
NoFile == [exists |-> FALSE, content |-> <<>>]
File(content) == [exists |-> TRUE, content |-> content]

(***************************************************************************)
(* ChunkedDashLicensesProcessor                                            *)
(***************************************************************************)
DefaultMaxRetries == 9
DefaultRetryDelayMs == 3000

\* options.maxRetries || 9   (0 stands for an absent or zero option)
CtorMaxRetries(opt) == IF opt = 0 THEN DefaultMaxRetries ELSE opt

\* options.retryDelayMs || 3000
CtorRetryDelayMs(opt) == IF opt = 0 THEN DefaultRetryDelayMs ELSE opt

\* getAllDependencies: output.split('\n').map(trim).filter(non-empty)
getAllDependencies(output) == TrimmedLines(output)

Min(a, b) == IF a < b THEN a ELSE b

RECURSIVE SplitFrom(_, _, _)
\* for (let i = 0; i < dependencies.length; i += chunkSize) chunks.push(slice(i, i + chunkSize))
\* (i is 0-based as in the code)
SplitFrom(dependencies, chunkSize, i) ==
  IF i < Len(dependencies)
  THEN <<SubSeq(dependencies, i + 1, Min(i + chunkSize, Len(dependencies)))>>
       \o SplitFrom(dependencies, chunkSize, i + chunkSize)
  ELSE <<>>

\* variant: the chunks are one entry longer than the batch size
splitIntoChunks_Oversized(dependencies, chunkSize) == SplitFrom(dependencies, chunkSize + 1, 0)

\* splitIntoChunks(dependencies, chunkSize)
splitIntoChunks(dependencies, chunkSize) == SplitFrom(dependencies, chunkSize, 0)

\* chunk.join('\n') + '\n' written to the temporary input file
InputFileContent(chunk) == chunk \o << <<>> >>

\* processChunk on the input file of chunk n: writeFileSync(tempInputFile, ...)
\* before the command, unlinkSync(tempInputFile) in the finally block
processChunkInput(fs, n, chunk) ==
  LET written == [fs EXCEPT ![n] = File(InputFileContent(chunk))]
  IN [written EXCEPT ![n] = NoFile]

\* existsSync(outputFile) && readFileSync(outputFile).length > 0
HasContent(file) == file.exists /\ TextLength(file.content) > 0

NoStatus == 0 - 1

\* variant: the output check alone decides, whatever the exit status
AttemptSucceeds_AnyStatus(status, file) == HasContent(file)

\* the result of one pass of the try/catch of processChunkWithRetry, given the
\* exit status of the oracle command (NoStatus: killed by a signal, error.status
\* is null) and the output file as it is after the invocation
AttemptSucceeds(status, file) ==
  IF status = 0
  THEN HasContent(file)
  ELSE /\ status # NoStatus
       /\ status > 0
       /\ status < 128
       /\ HasContent(file)

\* variant: one attempt more than maxRetries
IsLastAttempt_OneMore(att, max) == att = max + 1

\* const isLastAttempt = attempt === this.maxRetries
IsLastAttempt(att, max) == att = max

RECURSIVE AddAll(_, _)
\* lines.forEach(line => allEntries.add(line)) on an insertion-ordered Set
AddAll(entries, lines) ==
  IF lines = <<>> THEN entries
  ELSE IF \E k \in 1..Len(entries) : entries[k] = Head(lines)
       THEN AddAll(entries, Tail(lines))
       ELSE AddAll(Append(entries, Head(lines)), Tail(lines))

RECURSIVE CollectEntries(_, _, _)
\* the for loop of mergeChunkResults over tempFiles
CollectEntries(files, fs, entries) ==
  IF files = <<>> THEN entries
  ELSE IF fs[Head(files)].exists
       THEN CollectEntries(Tail(files), fs,
                           AddAll(entries, TrimmedLines(fs[Head(files)].content)))
       ELSE CollectEntries(Tail(files), fs, entries)

\* variant: the entries are written in insertion order
SortedEntries_Unsorted(files, fs) == CollectEntries(files, fs, <<>>)

\* const sortedEntries = Array.from(allEntries).sort()
SortedEntries(files, fs) == SortStrings(CollectEntries(files, fs, <<>>))

\* sortedEntries.join('\n') + '\n'
MergedContent(files, fs) == SortedEntries(files, fs) \o << <<>> >>

\* variant: the file of the first chunk is left behind
cleanupTempFiles_KeepFirst(files, fs) ==
  [n \in DOMAIN fs |->
     IF \E k \in 2..Len(files) : files[k] = n THEN NoFile ELSE fs[n]]

\* cleanupTempFiles: unlink every temp file that exists
cleanupTempFiles(files, fs) ==
  [n \in DOMAIN fs |->
     IF \E k \in 1..Len(files) : files[k] = n THEN NoFile ELSE fs[n]]

NoError == [kind |-> "none", chunk |-> 0]

(***************************************************************************)
(* Inputs of the resolver.                                                 *)
(***************************************************************************)
\* what the parser script may print
ParserOutputs ==
  { << <<>> >>,
    << <<" ", "b">>, <<>>, <<"a", " ">>, <<"c">>, <<>> >> }

\* what one oracle invocation may leave in the chunk's summary file
OracleOutputs ==
  { << <<>> >>,
    << <<>>, <<>> >>,
    << <<"b">>, <<"a">>, <<>> >>,
    << <<"a", "b">>, <<" ", "a">>, <<"b">>, <<>> >> }

NoWrite == [written |-> FALSE, content |-> <<>>]
Written(content) == [written |-> TRUE, content |-> content]

\* exit statuses of the oracle command
ExitStatuses == {0, 1, 127, 128, 137, NoStatus}

MaxChunks == 3
ChunkNums == 1..MaxChunks

\* a ledger left at the output path by an earlier run
StaleLedger == File(<< <<"d">>, <<>> >>)

NoCall == [chunk |-> 0, attempt |-> 0, input |-> <<>>, waited |-> 0,
           status |-> 0, wrote |-> FALSE, hasContent |-> FALSE]

(***************************************************************************)
(* process()                                                               *)
(***************************************************************************)
\* Steps 1 and 2: read the dependencies, return when there are none, split
ProcessStart ==
  /\ rpc = "start"
  /\ LET allDependencies == getAllDependencies(parserOutput)
     IN IF Len(allDependencies) = 0
        THEN /\ rpc' = "returned"
             /\ UNCHANGED chunks
        ELSE /\ chunks' = splitIntoChunks(allDependencies, batchSize)
             /\ rpc' = "loop"
  /\ UNCHANGED <<splitI, parserOutput, batchSize, maxRetries, retryDelayMs, debug, inputFs,
                 chunkIdx, tempFiles, attempt, tmpFs, outputFile, lastCall, invoked,
                 waited, succeeded, exhausted, thrown, ledgerWrites>>
  /\ UNCHANGED reportVars

\* head of `for (let i = 0; i < chunks.length; i++)`, up to the call of
\* processChunkWithRetry
ChunkLoop ==
  /\ rpc = "loop"
  /\ IF chunkIdx < Len(chunks)
     THEN /\ tempFiles' = Append(tempFiles, chunkIdx + 1)
          /\ attempt' = 1
          /\ rpc' = "try"
     ELSE /\ rpc' = "merge"
          /\ UNCHANGED <<tempFiles, attempt>>
  /\ UNCHANGED <<splitI, parserOutput, batchSize, maxRetries, retryDelayMs, debug, inputFs,
                 chunks, chunkIdx, tmpFs, outputFile, lastCall, invoked, waited,
                 succeeded, exhausted, thrown, ledgerWrites>>
  /\ UNCHANGED reportVars

\* variant: a chunk that used up its attempts ends the loop and the merge runs
AfterAttempt_Break(ok, att, max) ==
  IF ok THEN "loop"
  ELSE IF IsLastAttempt(att, max) THEN "merge"
  ELSE "sleep"

\* where process() and processChunkWithRetry go after one attempt
AfterAttempt(ok, att, max) ==
  IF ok THEN "loop"
  ELSE IF IsLastAttempt(att, max) THEN "abort"
  ELSE "sleep"

\* one iteration of the retry loop: processChunk (the oracle runs on the
\* chunk, exits with some status and writes or does not write the summary
\* file), then the check of the output
Attempt ==
  /\ rpc = "try"
  /\ \E status \in ExitStatuses, w \in {NoWrite} \cup {Written(c) : c \in OracleOutputs} :
       LET chunkNum == chunkIdx + 1
           file     == IF w.written THEN File(w.content) ELSE tmpFs[chunkNum]
           ok       == AttemptSucceeds(status, file)
       IN /\ tmpFs' = [tmpFs EXCEPT ![chunkNum] = file]
          /\ inputFs' = processChunkInput(inputFs, chunkNum, chunks[chunkNum])
          /\ lastCall' = [chunk   |-> chunkNum,
                          attempt |-> attempt,
                          input   |-> InputFileContent(chunks[chunkNum]),
                          waited  |-> waited,
                          status  |-> status,
                          wrote   |-> w.written,
                          hasContent |-> HasContent(file)]
          /\ invoked' = invoked \cup {chunkNum}
          /\ waited' = 0
          /\ rpc' = AfterAttempt(ok, attempt, maxRetries)
          /\ IF ok
             THEN /\ succeeded' = succeeded \cup {chunkNum}
                  /\ chunkIdx' = chunkIdx + 1
                  /\ UNCHANGED exhausted
             ELSE /\ exhausted' = IF IsLastAttempt(attempt, maxRetries)
                                  THEN exhausted \cup {chunkNum} ELSE exhausted
                  /\ UNCHANGED <<succeeded, chunkIdx>>
  /\ UNCHANGED <<splitI, parserOutput, batchSize, maxRetries, retryDelayMs, debug,
                 chunks, tempFiles, attempt, outputFile, thrown, ledgerWrites>>
  /\ UNCHANGED reportVars

\* await this.sleep(this.retryDelayMs), then the next iteration
Sleep ==
  /\ rpc = "sleep"
  /\ waited' = waited + retryDelayMs
  /\ attempt' = attempt + 1
  /\ rpc' = "try"
  /\ UNCHANGED <<splitI, parserOutput, batchSize, maxRetries, retryDelayMs, debug, inputFs,
                 chunks, chunkIdx, tempFiles, tmpFs, outputFile, lastCall, invoked,
                 succeeded, exhausted, thrown, ledgerWrites>>
  /\ UNCHANGED reportVars

\* variant: a failed chunk is skipped and the loop goes on
Abort_Continue ==
  /\ rpc = "abort"
  /\ chunkIdx' = chunkIdx + 1
  /\ rpc' = "loop"
  /\ UNCHANGED <<splitI, parserOutput, batchSize, maxRetries, retryDelayMs, debug, inputFs,
                 chunks, tempFiles, attempt, tmpFs, outputFile, lastCall,
                 invoked, waited, succeeded, exhausted, thrown, ledgerWrites>>
  /\ UNCHANGED reportVars

\* if (!success) { cleanup unless debug; throw new Error(`Chunk ${chunkNum} ...`) }
Abort ==
  /\ rpc = "abort"
  /\ tmpFs' = IF debug THEN tmpFs ELSE cleanupTempFiles(tempFiles, tmpFs)
  /\ thrown' = [kind |-> "ChunkFailed", chunk |-> chunkIdx + 1]
  /\ rpc' = "threw"
  /\ UNCHANGED <<splitI, parserOutput, batchSize, maxRetries, retryDelayMs, debug, inputFs,
                 chunks, chunkIdx, tempFiles, attempt, outputFile, lastCall, invoked,
                 waited, succeeded, exhausted, ledgerWrites>>
  /\ UNCHANGED reportVars

\* Steps 4 and 5: mergeChunkResults, then cleanup unless debug
Merge ==
  /\ rpc = "merge"
  /\ IF Len(CollectEntries(tempFiles, tmpFs, <<>>)) = 0
     THEN /\ thrown' = [kind |-> "NoEntries", chunk |-> 0]
          /\ rpc' = "threw"
          /\ UNCHANGED <<outputFile, ledgerWrites, tmpFs>>
     ELSE /\ outputFile' = File(MergedContent(tempFiles, tmpFs))
          /\ ledgerWrites' = ledgerWrites + 1
          /\ tmpFs' = IF debug THEN tmpFs ELSE cleanupTempFiles(tempFiles, tmpFs)
          /\ rpc' = "returned"
          /\ UNCHANGED thrown
  /\ UNCHANGED <<splitI, parserOutput, batchSize, maxRetries, retryDelayMs, debug, inputFs,
                 chunks, chunkIdx, tempFiles, attempt, lastCall, invoked, waited, succeeded,
                 exhausted>>
  /\ UNCHANGED reportVars

(***************************************************************************)
(* document/index.ts: data                                                 *)
(***************************************************************************)
\* an approval reference stored verbatim (approvedBy, exclusion justification)
Text(t) == [kind |-> "text", text |-> t, target |-> <<>>]
\* `[clearlydefined](https://clearlydefined.io/definitions/npm/npmjs/${scope}/${name}/${version})`
Link(scope, name, version) ==
  [kind |-> "link", text |-> "clearlydefined", target |-> <<scope, name, version>>]

\* new Map()
EmptyMap == [x \in {} |-> Text("")]
\* map.set(k, v)
MapSet(m, k, v) == [x \in DOMAIN m \cup {k} |-> IF x = k THEN v ELSE m[x]]
\* map.has(k)
MapHas(m, k) == k \in DOMAIN m

\* entries of Logger.logs
\* `\n## ${words}\n`
Heading(words) == [kind |-> "heading", text |-> words, n |-> 0, id |-> <<>>]
\* `\n${n}. \`${id}\``
Item(n, id) == [kind |-> "item", text |-> <<>>, n |-> n, id |-> id]

\* segments of ledger coordinates
CQ == <<"c", "q">>
NPM == <<"n", "p", "m">>
NPMJS == <<"n", "p", "m", "j", "s">>
MAVEN == <<"m", "a", "v", "e", "n">>
MAVENCENTRAL == <<"m", "a", "v", "e", "n", "c", "e", "n", "t", "r", "a", "l">>
DASH == <<"-">>
\* `${undefined}`
UNDEFINED == <<"u", "n", "d", "e", "f", "i", "n", "e", "d">>

\* a ledger line after line.split(/,\s?/): lineData[0] is the coordinate, held
\* as its cqIdentifier.split('/') segments; rest holds lineData[1..]
Line(coord, rest) == [coord |-> coord, rest |-> rest]
EmptyLine == Line(<< <<>> >>, <<>>)
\* lineData.length
LineLength(line) == 1 + Len(line.rest)

\* parts[k] rendered in a template literal, k counted from 0
PartText(parts, k) == IF k + 1 <= Len(parts) THEN parts[k + 1] ELSE UNDEFINED

\* license.trim() on the license strings the model uses
TrimText(t) == IF t = " MIT" THEN "MIT" ELSE t

\* the coordinate-to-identifier block of parseDependenciesFile (parts.length >= 5)
ParseCoordinate(parts) ==
  LET offset == IF parts[1] = CQ THEN 1 ELSE 0
      scopeOrDashIndex == 2 + offset
      sd == parts[scopeOrDashIndex + 1]
      scoped == sd # <<>> /\ Head(sd) = "@"
      name == PartText(parts, scopeOrDashIndex + 1)
      version == PartText(parts, scopeOrDashIndex + 2)
  IN IF scoped
     THEN [scope |-> sd, name |-> name, version |-> version,
           identifier |-> sd \o <<"/">> \o name \o <<"@">> \o version]
     ELSE [scope |-> DASH, name |-> name, version |-> version,
           identifier |-> name \o <<"@">> \o version]

RECURSIVE parseExcludedFileData(_, _)
\* every line matching /^\| `([^|^ ]+)` \| ([^|]+) \|$/ sets depsMap[id] = text
\* (a line is held with the outcome of the match: row, id, text)
parseExcludedFileData(fileData, depsMap) ==
  IF fileData = <<>> THEN depsMap
  ELSE IF Head(fileData).row
       THEN parseExcludedFileData(Tail(fileData),
                                  MapSet(depsMap, Head(fileData).id, Text(Head(fileData).text)))
       ELSE parseExcludedFileData(Tail(fileData), depsMap)

RECURSIVE FilterLines(_)
\* fileData.split(/\r?\n/).filter(lineData => !!lineData)
FilterLines(lines) ==
  IF lines = <<>> THEN <<>>
  ELSE IF Head(lines) = EmptyLine THEN FilterLines(Tail(lines))
  ELSE <<Head(lines)>> \o FilterLines(Tail(lines))

\* variant: only approved lines record their license
LicenseStep_ApprovedOnly(lineData, allLicenses) ==
  IF LineLength(lineData) >= 3 /\ lineData.rest[2] = "approved" /\ Len(lineData.coord) >= 5
  THEN MapSet(allLicenses, ParseCoordinate(lineData.coord).identifier,
              [License |-> TrimText(lineData.rest[1]), URL |-> ""])
  ELSE allLicenses

\* the body of the first deps.forEach: license metadata of one line
LicenseStep(lineData, allLicenses) ==
  IF LineLength(lineData) >= 2 /\ Len(lineData.coord) >= 5
  THEN MapSet(allLicenses, ParseCoordinate(lineData.coord).identifier,
              [License |-> TrimText(lineData.rest[1]), URL |-> ""])
  ELSE allLicenses

\* variant: every line with a status field passes the filter
IsApprovedLine_AnyStatus(lineData) == Len(lineData.rest) >= 2

\* deps.filter(lineData => status === 'approved')
IsApprovedLine(lineData) == Len(lineData.rest) >= 2 /\ lineData.rest[2] = "approved"

RECURSIVE FilterApproved(_)
FilterApproved(lines) ==
  IF lines = <<>> THEN <<>>
  ELSE IF IsApprovedLine(Head(lines)) THEN <<Head(lines)>> \o FilterApproved(Tail(lines))
  ELSE FilterApproved(Tail(lines))

\* does the second forEach reach the identifier of this line
IsWellFormed(lineData) == LineLength(lineData) >= 4 /\ Len(lineData.coord) >= 5

\* the body of the second forEach: one approved line; st = [map, log, n]
ApprovedStep(lineData, st) ==
  IF ~IsWellFormed(lineData) THEN st
  ELSE LET c == ParseCoordinate(lineData.coord)
           approvedBy == lineData.rest[3]
       IN IF MapHas(st.map, c.identifier)
          THEN [map |-> st.map,
                log |-> Append(st.log, Item(st.n + 1, c.identifier)),
                n   |-> st.n + 1]
          ELSE IF approvedBy = "clearlydefined"
               THEN [st EXCEPT !.map = MapSet(st.map, c.identifier,
                                              Link(c.scope, c.name, c.version))]
               ELSE [st EXCEPT !.map = MapSet(st.map, c.identifier, Text(approvedBy))]

\* if (dependenciesMap.size > 0) log += '\n## UNUSED Excludes\n'
InitialParseLog(dependenciesMap) ==
  IF DOMAIN dependenciesMap # {} THEN <<Heading(<<"UNUSED Excludes">>)>> ELSE <<>>

NoLicense == [License |-> "", URL |-> ""]

\* variant: an empty reference counts as no approval
HasApproval_NonEmpty(depToCQ, item) == MapHas(depToCQ, item) /\ depToCQ[item] # Text("")

\* depToCQ.has(item)
HasApproval(depToCQ, item) == MapHas(depToCQ, item)

RECURSIVE DocRows(_, _, _, _)
\* depsArray.sort().forEach(item => ...) of arrayToDocument;
\* acc = [rows, log, unresolvedQuantity]
DocRows(sorted, depToCQ, allLicenses, acc) ==
  IF sorted = <<>> THEN acc
  ELSE LET item == Head(sorted)
           info == IF MapHas(allLicenses, item) THEN allLicenses[item] ELSE NoLicense
           row(cq) == [id |-> item, url |-> info.URL, license |-> info.License, cq |-> cq]
       IN IF HasApproval(depToCQ, item)
          THEN DocRows(Tail(sorted), depToCQ, allLicenses,
                       [acc EXCEPT !.rows = Append(acc.rows, row(depToCQ[item]))])
          ELSE DocRows(Tail(sorted), depToCQ, allLicenses,
                       [rows |-> Append(acc.rows, row(Text(""))),
                        log  |-> Append(acc.log, Item(acc.unresolvedQuantity + 1, item)),
                        unresolvedQuantity |-> acc.unresolvedQuantity + 1])

\* arrayToDocument: the document, the log it adds and the number of
\* logger.incrementUnresolved() calls
arrayToDocument(title, depsArray, depToCQ, allLicenses) ==
  LET acc == DocRows(SortStrings(depsArray), depToCQ, allLicenses,
                     [rows |-> <<>>,
                      log  |-> <<Heading(<<"UNRESOLVED", title>>)>>,
                      unresolvedQuantity |-> 0])
  IN [document   |-> [title |-> title, rows |-> acc.rows],
      addLog     |-> IF acc.unresolvedQuantity > 0 THEN acc.log ELSE <<>>,
      increments |-> acc.unresolvedQuantity]

(***************************************************************************)
(* bump-deps scripts: inputs                                               *)
(***************************************************************************)
MaxLedgerLines == 2

Adapters == {"npm", "mvn", "yarn", "yarn3"}

\* `${name}@${version}` identifiers
IdA == <<"a", "@", "1">>
IdB == <<"b", "@", "2">>
IdSB == <<"@", "s", "/", "b", "@", "1">>
IdC == <<"c", "@", "1">>

\* npm/npmjs/-/a/1, MIT, approved, clearlydefined
LineA == Line(<<NPM, NPMJS, DASH, <<"a">>, <<"1">>>>, <<"MIT", "approved", "clearlydefined">>)
\* cq/npm/npmjs/-/a/1, MIT, approved, #1
LineACq == Line(<<CQ, NPM, NPMJS, DASH, <<"a">>, <<"1">>>>, <<"MIT", "approved", "#1">>)
\* npm/npmjs/@s/b/1,  MIT, restricted, #2
LineSB == Line(<<NPM, NPMJS, <<"@", "s">>, <<"b">>, <<"1">>>>, <<" MIT", "restricted", "#2">>)
\* npm/npmjs/-/b/2, MIT, approved,
LineB == Line(<<NPM, NPMJS, DASH, <<"b">>, <<"2">>>>, <<"MIT", "approved", "">>)
\* npm/npmjs/a/1, MIT, approved, #3
LineShort == Line(<<NPM, NPMJS, <<"a">>, <<"1">>>>, <<"MIT", "approved", "#3">>)

\* cq/npm/npmjs/a/1, MIT, approved, #4
LineCqShort == Line(<<CQ, NPM, NPMJS, <<"a">>, <<"1">>>>, <<"MIT", "approved", "#4">>)

LedgerLines == {LineA, LineACq, LineSB, LineB, LineShort, LineCqShort, EmptyLine}

\* the DEPENDENCIES file as its '\n'-separated lines; verifyDependenciesFile
\* has let the run continue, so the file holds at least one byte
Ledgers ==
  UNION {[1..n -> LedgerLines] : n \in 1..MaxLedgerLines} \ {<<EmptyLine>>}

\* maven/mavencentral/g/a/1, EPL, approved, clearlydefined
MvnLineA == Line(<<MAVEN, MAVENCENTRAL, <<"g">>, <<"a">>, <<"1">>>>, <<"EPL", "approved", "clearlydefined">>)
\* maven/mavencentral/h/a/1, MIT, approved, #5
MvnLineHA == Line(<<MAVEN, MAVENCENTRAL, <<"h">>, <<"a">>, <<"1">>>>, <<"MIT", "approved", "#5">>)
\* maven/mavencentral/g/c/1, MIT, restricted, #6
MvnLineC == Line(<<MAVEN, MAVENCENTRAL, <<"g">>, <<"c">>, <<"1">>>>, <<"MIT", "restricted", "#6">>)

MissingLedger == [exists |-> FALSE, lines |-> <<>>]
LedgerFile(lines) == [exists |-> TRUE, lines |-> lines]

\* writeFileSync(path, ''), or a file the resolver left with no byte in it
EmptyLedger == LedgerFile(<<EmptyLine>>)

\* cq/maven/mavencentral/g/c/1, MIT, approved, #7
MvnLineCqC == Line(<<CQ, MAVEN, MAVENCENTRAL, <<"g">>, <<"c">>, <<"1">>>>, <<"MIT", "approved", "#7">>)

\* PROD_DEPENDENCIES after the resolver has run on a non-empty production list
MvnProdFiles ==
  {MissingLedger, EmptyLedger, LedgerFile(<<MvnLineA, EmptyLine>>),
   LedgerFile(<<MvnLineA, MvnLineHA>>), LedgerFile(<<MvnLineCqC, MvnLineA>>)}

\* DEV_DEPENDENCIES after the resolver has run on a non-empty development list
MvnDevFiles ==
  {MissingLedger, LedgerFile(<<MvnLineA>>), LedgerFile(<<MvnLineC, EmptyLine>>)}

\* PROD_DEPENDENCIES and DEV_DEPENDENCIES of the mvn adapter: a list without
\* dependencies gets an empty file and no resolver run
MvnFileInputs(prodCount, devCount) ==
  {[prod |-> p, dev |-> d] :
     p \in (IF prodCount > 0 THEN MvnProdFiles ELSE {EmptyLedger}),
     d \in (IF devCount > 0 THEN MvnDevFiles ELSE {EmptyLedger})}
NoMvnFiles == [prod |-> MissingLedger, dev |-> MissingLedger]

\* one line of an exclusion file with the outcome of the row pattern on it
ProseLine == [row |-> FALSE, id |-> <<>>, text |-> ""]
Row(id, text) == [row |-> TRUE, id |-> id, text |-> text]

\* EXCLUDED/prod.md and EXCLUDED/dev.md
ExclusionFiles ==
  {[exists |-> FALSE, lines |-> <<>>],
   [exists |-> TRUE, lines |-> <<ProseLine, Row(IdA, "manual")>>],
   [exists |-> TRUE, lines |-> <<Row(IdC, "build only"), ProseLine>>]}

\* the dependency lists the package manager reports
DepsInputs ==
  {[prod |-> <<IdB, IdA>>, dev |-> <<IdSB>>],
   [prod |-> <<IdA>>, dev |-> <<IdC, IdB>>],
   [prod |-> <<>>, dev |-> <<IdA>>],
   [prod |-> <<IdA, IdA>>, dev |-> <<IdC>>],
   [prod |-> <<IdC>>, dev |-> <<>>]}

\* license metadata the package manager knows for a library
DeclaredLicense(lib) ==
  IF lib = IdA THEN [License |-> "ISC", URL |-> "https://a"] ELSE NoLicense

(***************************************************************************)
(* bump-deps scripts: helpers                                              *)
(***************************************************************************)
\* order of the steps of each bump-deps script
Flow(name) ==
  IF name \in {"npm", "mvn"}
  THEN <<"collect", "exclProd", "exclDev", "parse", "docProd", "docDev", "finish">>
  ELSE <<"collect", "exclProd", "parse", "lists", "docProd", "exclDev", "docDev", "finish">>

After(name, step) ==
  LET f == Flow(name)
      k == CHOOSE i \in 1..Len(f) : f[i] = step
  IN f[k + 1]

NoOutput == [exists |-> FALSE, body |-> <<>>]
Output(body) == [exists |-> TRUE, body |-> body]

\* `\n${errorMsg}\n`
ErrorNote(words) == [kind |-> "error", text |-> words, n |-> 0, id |-> <<>>]

NoDocCall == [called |-> FALSE, deps |-> <<>>, rows |-> <<>>, increments |-> 0,
              approved |-> {}]

Running == 0 - 1

\* shouldWriteToDisk() of the yarn scripts; the npm and mvn scripts always
\* write (to TMP_DIR)
WritesToDisk(name, chk) == name \in {"npm", "mvn"} \/ ~chk

RECURSIVE SetLicenses(_, _)
\* allDeps.forEach(lib => allDependencies.set(lib, licenseInfo))
SetLicenses(map, libs) ==
  IF libs = <<>> THEN map
  ELSE SetLicenses(MapSet(map, Head(libs), DeclaredLicense(Head(libs))), Tail(libs))

RECURSIVE SetMissingLicenses(_, _)
\* allDeps.forEach(lib => { if (!has(lib)) set(lib, { License: '' }) })
SetMissingLicenses(map, libs) ==
  IF libs = <<>> THEN map
  ELSE IF MapHas(map, Head(libs)) THEN SetMissingLicenses(map, Tail(libs))
  ELSE SetMissingLicenses(MapSet(map, Head(libs), NoLicense), Tail(libs))

\* parseMavenDependencyLine: `${artifactId}@${version}`, <<>> for null
parseMavenDependencyLine(line) ==
  IF Len(line.coord) >= 5 /\ line.coord[1] = MAVEN
  THEN line.coord[4] \o <<"@">> \o line.coord[5]
  ELSE <<>>

\* readProcessedDependencies: [...new Set(deps)].sort(), [] when unreadable
readProcessedDependencies(file) ==
  IF ~file.exists THEN <<>>
  ELSE SortStrings(AddAll(<<>>,
         FilterNonEmpty([k \in 1..Len(file.lines) |->
                           parseMavenDependencyLine(file.lines[k])])))

\* uniqueLines of the mvn script: the non-blank lines of both files, deduplicated
CombinedDependencies(mf) ==
  AddAll(<<>>, FilterLines(mf.prod.lines \o (IF mf.dev.exists THEN mf.dev.lines ELSE <<>>)))

RECURSIVE LicensePass(_, _)
\* the first deps.forEach of parseDependenciesFile
LicensePass(deps, allLicenses) ==
  IF deps = <<>> THEN allLicenses
  ELSE LicensePass(Tail(deps), LicenseStep(Head(deps), allLicenses))

RECURSIVE SortedKeys(_)
\* allDependencies.forEach((_v, key) => yarnAllDeps.push(key)); yarnAllDeps.sort()
SortedKeys(keys) ==
  IF keys = {} THEN <<>>
  ELSE LET x == CHOOSE x \in keys : TRUE
       IN InsertSorted(x, SortedKeys(keys \ {x}))

RECURSIVE Without(_, _)
\* all.filter(entry => !prod.includes(entry))
Without(all, prod) ==
  IF all = <<>> THEN <<>>
  ELSE IF \E k \in 1..Len(prod) : prod[k] = Head(all) THEN Without(Tail(all), prod)
  ELSE <<Head(all)>> \o Without(Tail(all), prod)

\* dependenciesStr.trim().length === 0 on the ledgers of the model
IsBlank(ledger) == \A k \in 1..Len(ledger) : ledger[k] = EmptyLine

\* variant: the counter is reset for every document
incrementUnresolved_PerDocument(n, k) == k

\* logger.incrementUnresolved(), k times
incrementUnresolved(n, k) == n + k

\* getExitStatus(error): error.status || 1
getExitStatus(status) == IF status = 0 \/ status = NoStatus THEN 1 ELSE status

\* runBumpDeps: restricted stays 0 unless execSync throws (non-zero exit)
runBumpDeps(status) == IF status = 0 THEN 0 ELSE getExitStatus(status)

\* the two comparisons of checkRestrictions
Differ(orig, newExists) ==
  IF orig = "missing" THEN "missing"
  ELSE IF ~newExists THEN "missing"
  ELSE IF orig = "same" THEN "" ELSE "differ"

\* variant: only outdated reports fail the run
shouldFail_OutdatedOnly(chk, r) == r.differProd # "" \/ r.differDev # ""

\* const shouldFail = check ? (restricted !== 0) : (hasOutdatedDeps || restricted !== 0)
shouldFail(chk, r) ==
  IF chk THEN r.restricted # 0
  ELSE (r.differProd # "" \/ r.differDev # "") \/ r.restricted # 0

(***************************************************************************)
(* PackageManagerBase: verifyDependenciesFile                              *)
(***************************************************************************)
NotCreatedMsg == "Error: DEPENDENCIES file was not created."
EmptyMsg == "Error: DEPENDENCIES file is empty. Check internet connection and try again."
ProdEmptyMsg == "Error: PROD_DEPENDENCIES file is empty. Check internet connection and try again."
DevEmptyMsg == "Error: DEV_DEPENDENCIES file is empty. Check internet connection and try again."

\* !existsSync(path) || statSync(path).size < 1
AbsentOrEmpty(file) == ~file.exists \/ file.lines = <<EmptyLine>>

\* variant: only a missing file stops the run
BaseVerifyError_EmptyAccepted(state) == IF state = "absent" THEN NotCreatedMsg ELSE ""

\* nothing of this run is under $DEPS_DIR yet
NoProjectWrites ==
  [prod |-> NoOutput, dev |-> NoOutput, problems |-> NoOutput,
   excluded |-> FALSE, tmp |-> FALSE]

\* copyTmpDir: mkdir -p $DEPS_DIR/tmp and cp -r $TMP_DIR/* into it
copyTmpDir(deps) == [deps EXCEPT !.tmp = TRUE]

\* the message verifyDependenciesFile stops the run with, "" when it returns
BaseVerifyError(state) ==
  IF state = "absent" THEN NotCreatedMsg
  ELSE IF state = "empty" THEN EmptyMsg
  ELSE ""

\* mvn overrides verifyDependenciesFile with an empty method; the two files
\* are verified in generateDependencies, each only when its list is non-empty
MvnVerifyError(prodCount, devCount, mf) ==
  IF prodCount > 0 /\ AbsentOrEmpty(mf.prod) THEN ProdEmptyMsg
  ELSE IF devCount > 0 /\ AbsentOrEmpty(mf.dev) THEN DevEmptyMsg
  ELSE ""

(***************************************************************************)
(* bump-deps scripts: steps                                                *)
(***************************************************************************)
parseLocals == <<approvedLines, lineIdx, log, numberUnusedExcludes>>
inputVars == <<adapter, check, inProd, inDev, mvnFiles, dependenciesFile>>
project == <<epc, projectDeps>>
baseVars == <<bumpExit, result, exitCode>>
notes == <<errors, ledgerRead, excludedIds>>

\* the ledger is verified after generateDependencies; process.exit(1) when it
\* is missing or empty (after copyTmpDir in debug mode), checkRestrictions
\* (the bump-deps script) otherwise
VerifyDependenciesFile ==
  /\ bpc = "verify"
  /\ LET msg == IF adapter = "mvn"
                THEN MvnVerifyError(Len(inProd), Len(inDev), mvnFiles)
                ELSE BaseVerifyError(dependenciesFile)
     IN IF msg # ""
        THEN /\ errors' = {msg}
             /\ projectDeps' = IF debug THEN copyTmpDir(projectDeps) ELSE projectDeps
             /\ exitCode' = 1
             /\ bpc' = "done"
        ELSE /\ bpc' = "collect"
             /\ UNCHANGED <<errors, exitCode, projectDeps>>
  /\ UNCHANGED <<loggers, epc, inputVars, prodDeps, devDeps, depsToCQ, allDependenciesMap, logs,
                 unresolvedNumber, parseLocals, events, docs, outFiles, bumpExit,
                 result, ledgerRead, excludedIds, resolverVars>>

\* the dependency lists and the license map are read from the package manager
Collect ==
  /\ bpc = "collect"
  /\ CASE adapter = "npm" ->
            /\ prodDeps' = inProd
            /\ devDeps' = inDev
            /\ allDependenciesMap' = SetLicenses(allDependenciesMap, inProd \o inDev)
       [] adapter = "mvn" ->
            LET p == readProcessedDependencies(mvnFiles.prod)
                d == readProcessedDependencies(mvnFiles.dev)
                allProdDeps == SortStrings(AddAll(<<>>, p \o SortStrings(AddAll(<<>>, inProd))))
                allDevDeps == SortStrings(AddAll(<<>>, d \o SortStrings(AddAll(<<>>, inDev))))
            IN /\ prodDeps' = p
               /\ devDeps' = d
               /\ allDependenciesMap' =
                    SetMissingLicenses(allDependenciesMap, allProdDeps \o allDevDeps)
       [] OTHER ->
            /\ allDependenciesMap' = SetLicenses(allDependenciesMap, inProd \o inDev)
            /\ UNCHANGED <<prodDeps, devDeps>>
  /\ bpc' = After(adapter, "collect")
  /\ events' = Append(events, "collect")
  /\ UNCHANGED <<loggers, project, inputVars, depsToCQ, logs, unresolvedNumber, parseLocals, docs,
                 outFiles, baseVars, resolverVars, notes>>

\* if (existsSync(path)) parseExcludedFileData(readFileSync(path), depsToCQ)
LoadExclusions(step) ==
  /\ bpc = step
  /\ \E f \in ExclusionFiles :
       /\ depsToCQ' = IF f.exists THEN parseExcludedFileData(f.lines, depsToCQ) ELSE depsToCQ
       /\ excludedIds' = excludedIds \cup
            {f.lines[k].id : k \in {i \in 1..Len(f.lines) : f.exists /\ f.lines[i].row}}
  /\ bpc' = After(adapter, step)
  /\ events' = Append(events, step)
  /\ UNCHANGED <<loggers, project, inputVars, prodDeps, devDeps, allDependenciesMap, logs,
                 unresolvedNumber, parseLocals, docs, outFiles, baseVars, resolverVars, errors, ledgerRead>>

\* EXCLUDED_PROD_MD
ExclProd ==
  /\ bpc = "exclProd"
  /\ LoadExclusions("exclProd")

\* EXCLUDED_DEV_MD
ExclDev ==
  /\ bpc = "exclDev"
  /\ LoadExclusions("exclDev")

\* parseDependenciesFile up to the second forEach: log, deps, the license pass
StartParse(fileData) ==
  LET deps == FilterLines(fileData)
  IN /\ log' = InitialParseLog(depsToCQ)
     /\ numberUnusedExcludes' = 0
     /\ allDependenciesMap' = LicensePass(deps, allDependenciesMap)
     /\ approvedLines' = FilterApproved(deps)
     /\ lineIdx' = 1
     /\ bpc' = "approved"
     /\ UNCHANGED <<outFiles, bumpExit>>

\* the ledger is read; npm stops on a blank ledger, mvn skips the parse when
\* its combined ledger is empty
ParseBegin ==
  /\ bpc = "parse"
  /\ \E ledger \in (IF adapter = "mvn" THEN {CombinedDependencies(mvnFiles)} ELSE Ledgers) :
       /\ ledgerRead' = ledger
       /\ IF adapter = "npm" /\ IsBlank(ledger)
          THEN /\ outFiles' = [outFiles EXCEPT
                                 !.problems = Output(<<ErrorNote("DEPENDENCIES file is empty")>>)]
               /\ bumpExit' = 1
               /\ bpc' = "exited"
               /\ UNCHANGED <<allDependenciesMap, parseLocals>>
          ELSE IF adapter = "mvn" /\ ledger = <<>>
          THEN /\ bpc' = After(adapter, "parse")
               /\ UNCHANGED <<allDependenciesMap, parseLocals, outFiles, bumpExit>>
          ELSE StartParse(ledger)
  /\ events' = Append(events, "parse")
  /\ UNCHANGED <<loggers, project, inputVars, prodDeps, devDeps, depsToCQ, logs, unresolvedNumber,
                 docs, result, exitCode, resolverVars, errors, excludedIds>>

\* one turn of the second forEach of parseDependenciesFile
ApprovedLine ==
  /\ bpc = "approved"
  /\ lineIdx <= Len(approvedLines)
  /\ LET st == ApprovedStep(approvedLines[lineIdx],
                            [map |-> depsToCQ, log |-> log, n |-> numberUnusedExcludes])
     IN /\ depsToCQ' = st.map
        /\ log' = st.log
        /\ numberUnusedExcludes' = st.n
  /\ lineIdx' = lineIdx + 1
  /\ UNCHANGED <<loggers, bpc, project, inputVars, prodDeps, devDeps, allDependenciesMap, logs,
                 unresolvedNumber, approvedLines, events, docs, outFiles, baseVars,
                 resolverVars, notes>>

\* if (numberUnusedExcludes > 0) logger.addLog(`${log}\n`)
ParseEnd ==
  /\ bpc = "approved"
  /\ lineIdx > Len(approvedLines)
  /\ logs' = IF numberUnusedExcludes > 0 THEN logs \o log ELSE logs
  /\ approvedLines' = <<>>
  /\ lineIdx' = 0
  /\ log' = <<>>
  /\ numberUnusedExcludes' = 0
  /\ bpc' = After(adapter, "parse")
  /\ UNCHANGED <<loggers, project, inputVars, prodDeps, devDeps, depsToCQ, allDependenciesMap,
                 unresolvedNumber, events, docs, outFiles, baseVars, resolverVars, notes>>

\* the yarn scripts build their lists after the ledger is parsed
Lists ==
  /\ bpc = "lists"
  /\ IF adapter = "yarn"
     THEN /\ prodDeps' = SortStrings(inProd)
          /\ devDeps' = Without(SortStrings(inProd \o inDev), SortStrings(inProd))
     ELSE /\ prodDeps' = inProd
          /\ devDeps' = Without(SortedKeys(DOMAIN allDependenciesMap), inProd)
  /\ bpc' = After(adapter, "lists")
  /\ events' = Append(events, "lists")
  /\ UNCHANGED <<loggers, project, inputVars, depsToCQ, allDependenciesMap, logs, unresolvedNumber,
                 parseLocals, docs, outFiles, baseVars, resolverVars, notes>>

\* arrayToDocument for one list, then the write of the document
GenerateDocument(step, title, key, depsArray) ==
  /\ bpc = step
  /\ LET r == arrayToDocument(title, depsArray, depsToCQ, allDependenciesMap)
     IN /\ logs' = logs \o r.addLog
        /\ unresolvedNumber' = incrementUnresolved(unresolvedNumber, r.increments)
        /\ outFiles' = IF WritesToDisk(adapter, check)
                       THEN [outFiles EXCEPT ![key] = Output(r.document)]
                       ELSE outFiles
        /\ docs' = [docs EXCEPT ![key] =
                      [called |-> TRUE, deps |-> depsArray, rows |-> r.document.rows,
                       increments |-> unresolvedNumber' - unresolvedNumber,
                       approved |-> DOMAIN depsToCQ]]
  /\ bpc' = After(adapter, step)
  /\ events' = Append(events, step)
  /\ UNCHANGED <<loggers, project, inputVars, depsToCQ, allDependenciesMap, parseLocals, baseVars,
                 resolverVars, notes>>

\* depsArray.sort() sorts the caller's array in place
DocProd ==
  /\ GenerateDocument("docProd", "Production dependencies", "prod", prodDeps)
  /\ prodDeps' = SortStrings(prodDeps)
  /\ UNCHANGED devDeps

DocDev ==
  /\ GenerateDocument("docDev", "Development dependencies", "dev", devDeps)
  /\ devDeps' = SortStrings(devDeps)
  /\ UNCHANGED prodDeps

\* the logs go to problems.md; exit 1 when something is unresolved
Finish ==
  /\ bpc = "finish"
  /\ outFiles' =
       IF logs # <<>>
       THEN IF WritesToDisk(adapter, check)
            THEN [outFiles EXCEPT !.problems = Output(logs)]
            ELSE outFiles
       ELSE IF adapter \in {"npm", "mvn"} /\ outFiles.problems.exists
            THEN [outFiles EXCEPT !.problems = NoOutput]
            ELSE outFiles
  /\ bumpExit' = IF unresolvedNumber > 0 THEN 1 ELSE 0
  /\ bpc' = "exited"
  /\ events' = Append(events, "finish")
  /\ UNCHANGED <<loggers, project, inputVars, prodDeps, devDeps, depsToCQ, allDependenciesMap, logs,
                 unresolvedNumber, parseLocals, docs, result, exitCode, resolverVars, notes>>

(***************************************************************************)
(* PackageManagerBase: checkRestrictions and handleResults                 *)
(***************************************************************************)
\* runBumpDeps has returned; in check mode the reports are compared with the
\* committed ones
CheckRestrictions ==
  /\ bpc = "exited"
  /\ LET restricted == runBumpDeps(bumpExit)
         newIn(key) == adapter \in {"npm", "mvn"} /\ outFiles[key].exists
     IN IF check
        THEN \E origProd, origDev \in {"missing", "same", "differs"} :
               result' = [differProd |-> Differ(origProd, newIn("prod")),
                          differDev  |-> Differ(origDev, newIn("dev")),
                          restricted |-> restricted]
        ELSE result' = [differProd |-> "", differDev |-> "", restricted |-> restricted]
  /\ bpc' = "handleResults"
  /\ UNCHANGED <<loggers, project, inputVars, prodDeps, devDeps, depsToCQ, allDependenciesMap, logs,
                 unresolvedNumber, parseLocals, events, docs, outFiles, bumpExit,
                 exitCode, resolverVars, notes>>

HandleResults ==
  /\ bpc = "handleResults"
  /\ exitCode' = IF shouldFail(check, result) THEN 1 ELSE 0
  /\ bpc' = "done"
  /\ UNCHANGED <<loggers, project, inputVars, prodDeps, devDeps, depsToCQ, allDependenciesMap, logs,
                 unresolvedNumber, parseLocals, events, docs, outFiles, bumpExit,
                 result, resolverVars, notes>>

(***************************************************************************)
(* entrypoint.sh: after the package-manager process                        *)
(***************************************************************************)
\* $TMP_DIR/prod.md, dev.md, problems.md: the npm and mvn scripts write their
\* documents there, the yarn scripts write them to $DEPS_COPY_DIR
TmpDirFile(key) == IF adapter \in {"npm", "mvn"} THEN outFiles[key] ELSE NoOutput

\* what cp "$TMP_DIR/$file" "$DEPS_DIR/$file" leaves at the destination
CopyFile(deps, key) == IF TmpDirFile(key).exists THEN TmpDirFile(key) ELSE deps[key]

\* the script exits with the code of a failed process, exits 0 in check mode,
\* and otherwise copies the results into the mounted project
CopyResults ==
  /\ bpc = "done"
  /\ epc = "node"
  /\ epc' = "exited"
  /\ projectDeps' =
       IF exitCode # 0 \/ check THEN projectDeps
       ELSE [prod |-> CopyFile(projectDeps, "prod"),
             dev |-> CopyFile(projectDeps, "dev"),
             problems |-> CopyFile(projectDeps, "problems"),
             excluded |-> TRUE,
             tmp |-> projectDeps.tmp \/ debug]
  /\ UNCHANGED <<loggers, bpc, inputVars, prodDeps, devDeps, depsToCQ, allDependenciesMap, logs,
                 unresolvedNumber, parseLocals, events, docs, outFiles, baseVars,
                 notes, resolverVars>>

(***************************************************************************)
(* document/index.ts: class Logger                                         *)
(***************************************************************************)
\* the Logger instances: 0 is the module-level `const logger`
LoggerIds == 0..Len(loggers)

\* private unresolvedNumber of an instance
UnresolvedOf(i) == IF i = 0 THEN unresolvedNumber ELSE loggers[i].unresolvedNumber

\* getLogs(): return Logger.logs, the static field every instance shares
getLogs(i) == logs

\* getUnresolvedNumber(): return this.unresolvedNumber
getUnresolvedNumber(i) == UnresolvedOf(i)

\* what the Logger steps leave alone
reportRest == <<bpc, inputVars, prodDeps, devDeps, depsToCQ, allDependenciesMap,
                parseLocals, docs, outFiles, baseVars, notes, project>>

\* new Logger(): private unresolvedNumber: number = 0
NewLogger ==
  /\ Len(loggers) < MaxLoggers
  /\ loggers' = Append(loggers, [unresolvedNumber |-> 0])
  /\ UNCHANGED <<logs, unresolvedNumber, events, reportRest, resolverVars>>

\* addLog(log): Logger.logs += log
AddLog ==
  /\ Len(logs) < MaxLogEntries
  /\ \E i \in LoggerIds, entry \in {Heading(<<"UNUSED Excludes">>), Item(1, IdA)} :
       logs' = Append(logs, entry)
  /\ UNCHANGED <<loggers, unresolvedNumber, events, reportRest, resolverVars>>

\* incrementUnresolved(): this.unresolvedNumber++
IncrementUnresolved ==
  /\ \E i \in LoggerIds :
       /\ UnresolvedOf(i) < MaxIncrements
       /\ IF i = 0
          THEN /\ unresolvedNumber' = unresolvedNumber + 1
               /\ UNCHANGED loggers
          ELSE /\ loggers' = [loggers EXCEPT ![i].unresolvedNumber = @ + 1]
               /\ UNCHANGED unresolvedNumber
  /\ UNCHANGED <<logs, events, reportRest, resolverVars>>

\* reset(): Logger.logs = ''; this.unresolvedNumber = 0
Reset ==
  /\ Len(events) < MaxResets
  /\ events' = Append(events, "reset")
  /\ \E i \in LoggerIds :
       /\ logs' = <<>>
       /\ IF i = 0
          THEN /\ unresolvedNumber' = 0
               /\ UNCHANGED loggers
          ELSE /\ loggers' = [loggers EXCEPT ![i].unresolvedNumber = 0]
               /\ UNCHANGED unresolvedNumber
  /\ UNCHANGED <<reportRest, resolverVars>>

(***************************************************************************)
(* Specifications                                                          *)
(***************************************************************************)
NoResult == [differProd |-> "", differDev |-> "", restricted |-> 0]

\* the report pipeline before the bump-deps script starts
ReportStart ==
  /\ bpc = "verify"
  /\ prodDeps = <<>>
  /\ devDeps = <<>>
  /\ depsToCQ = EmptyMap
  /\ allDependenciesMap = EmptyMap
  /\ logs = <<>>
  /\ unresolvedNumber = 0
  /\ approvedLines = <<>>
  /\ lineIdx = 0
  /\ log = <<>>
  /\ numberUnusedExcludes = 0
  /\ events = <<>>
  /\ docs = [prod |-> NoDocCall, dev |-> NoDocCall]
  /\ outFiles = [prod |-> NoOutput, dev |-> NoOutput, problems |-> NoOutput]
  /\ bumpExit = Running
  /\ result = NoResult
  /\ exitCode = Running
  /\ errors = {}
  /\ ledgerRead = <<>>
  /\ excludedIds = {}
  /\ epc = "node"
  /\ projectDeps = NoProjectWrites
  /\ loggers = <<>>

\* the resolver before process() is called
\* what the splitting steps leave alone
splitRest == <<maxRetries, retryDelayMs, debug, inputFs, chunkIdx, tempFiles, attempt,
               tmpFs, outputFile, lastCall, invoked, waited, succeeded, exhausted,
               thrown, ledgerWrites>>

\* dependencies.slice(from, to): from and to 0-based, to exclusive and clamped
Slice(dependencies, from, to) == SubSeq(dependencies, from + 1, Min(to, Len(dependencies)))

\* process() steps 1 and 2 up to the call: return when the parser gave no
\* dependency, otherwise `const chunks = []` and `let i = 0`
SplitCall ==
  /\ rpc = "start"
  /\ IF Len(getAllDependencies(parserOutput)) = 0
     THEN rpc' = "returned"
     ELSE rpc' = "split"
  /\ chunks' = <<>>
  /\ splitI' = 0
  /\ UNCHANGED <<parserOutput, batchSize, splitRest, reportVars>>

\* one iteration: chunks.push(dependencies.slice(i, i + chunkSize)); i += chunkSize
SplitPush ==
  /\ rpc = "split"
  /\ splitI < Len(getAllDependencies(parserOutput))
  /\ Len(chunks) < MaxSplitSteps
  /\ chunks' = Append(chunks, Slice(getAllDependencies(parserOutput), splitI, splitI + batchSize))
  /\ splitI' = splitI + batchSize
  /\ UNCHANGED <<rpc, parserOutput, batchSize, splitRest, reportVars>>

\* the loop condition i < dependencies.length fails: return chunks
SplitReturn ==
  /\ rpc = "split"
  /\ splitI >= Len(getAllDependencies(parserOutput))
  /\ rpc' = "loop"
  /\ UNCHANGED <<splitI, chunks, parserOutput, batchSize, splitRest, reportVars>>

ResolverStart ==
  /\ rpc = "start"
  /\ splitI = 0
  /\ chunks = <<>>
  /\ chunkIdx = 0
  /\ tempFiles = <<>>
  /\ attempt = 0
  /\ tmpFs = [n \in ChunkNums |-> NoFile]
  /\ inputFs = [n \in ChunkNums |-> NoFile]
  /\ lastCall = NoCall
  /\ invoked = {}
  /\ waited = 0
  /\ succeeded = {}
  /\ exhausted = {}
  /\ thrown = NoError
  /\ ledgerWrites = 0

InitResolver ==
  /\ ResolverStart
  /\ parserOutput \in ParserOutputs
  /\ batchSize \in 1..MaxBatch
  /\ \E opt \in 0..MaxRetriesOpt : maxRetries = CtorMaxRetries(opt)
  /\ \E opt \in {0, 5} : retryDelayMs = CtorRetryDelayMs(opt)
  /\ debug \in BOOLEAN
  /\ outputFile \in {NoFile, StaleLedger}
  /\ ReportStart
  /\ adapter = "npm"
  /\ check = FALSE
  /\ inProd = <<>>
  /\ inDev = <<>>
  /\ mvnFiles = NoMvnFiles
  /\ dependenciesFile = "absent"

NextResolver ==
  \/ ProcessStart
  \/ ChunkLoop
  \/ Attempt
  \/ Sleep
  \/ Abort
  \/ Merge

SpecResolver == InitResolver /\ [][NextResolver]_vars

InitReport ==
  /\ ReportStart
  /\ adapter \in Adapters
  /\ check \in BOOLEAN
  /\ \E d \in DepsInputs : inProd = d.prod /\ inDev = d.dev
  /\ mvnFiles \in (IF adapter = "mvn"
                    THEN MvnFileInputs(Len(inProd), Len(inDev))
                    ELSE {NoMvnFiles})
  /\ dependenciesFile \in (IF adapter = "mvn"
                            THEN {"absent"}
                            ELSE {"absent", "empty", "written"})
  /\ ResolverStart
  /\ parserOutput = <<>>
  /\ batchSize = 1
  /\ maxRetries = DefaultMaxRetries
  /\ retryDelayMs = DefaultRetryDelayMs
  /\ debug \in BOOLEAN
  /\ outputFile = NoFile

NextReport ==
  \/ VerifyDependenciesFile
  \/ Collect
  \/ ExclProd
  \/ ExclDev
  \/ ParseBegin
  \/ ApprovedLine
  \/ ParseEnd
  \/ Lists
  \/ DocProd
  \/ DocDev
  \/ Finish
  \/ CheckRestrictions
  \/ HandleResults
  \/ CopyResults

SpecReport == InitReport /\ [][NextReport]_vars

\* the lists of dependencies the parser may print in SpecSplit
SplitInputs == UNION {[1..n -> {<<"a">>, <<"b">>, <<"c">>}] : n \in 0..MaxDeps}

\* parseInt(BATCH_SIZE) for the values entrypoint.sh lets through: --batch
\* takes any string of decimal digits, 0 included
InitSplit ==
  /\ ResolverStart
  /\ parserOutput \in SplitInputs
  /\ batchSize \in 0..MaxBatch
  /\ maxRetries = DefaultMaxRetries
  /\ retryDelayMs = DefaultRetryDelayMs
  /\ debug = FALSE
  /\ outputFile = NoFile
  /\ ReportStart
  /\ adapter = "npm"
  /\ check = FALSE
  /\ inProd = <<>>
  /\ inDev = <<>>
  /\ mvnFiles = NoMvnFiles
  /\ dependenciesFile = "absent"

NextSplit ==
  \/ SplitCall
  \/ SplitPush
  \/ SplitReturn

\* the loop runs as long as its condition holds
SpecSplit == InitSplit /\ [][NextSplit]_vars /\ WF_vars(NextSplit)

\* the module is loaded: the module-level logger exists, nothing has run
InitLogger ==
  /\ ReportStart
  /\ adapter = "npm"
  /\ check = FALSE
  /\ inProd = <<>>
  /\ inDev = <<>>
  /\ mvnFiles = NoMvnFiles
  /\ dependenciesFile = "absent"
  /\ ResolverStart
  /\ parserOutput = <<>>
  /\ batchSize = 1
  /\ maxRetries = DefaultMaxRetries
  /\ retryDelayMs = DefaultRetryDelayMs
  /\ debug = FALSE
  /\ outputFile = NoFile

NextLogger ==
  \/ NewLogger
  \/ AddLog
  \/ IncrementUnresolved
  \/ Reset

SpecLogger == InitLogger /\ [][NextLogger]_vars

(***************************************************************************)
(* Properties of the resolver.                                             *)
(***************************************************************************)
RangeOf(seq) == {seq[k] : k \in 1..Len(seq)}

\* C1: once a chunk k has failed all of its attempts, the oracle is never
\* invoked for a chunk after k, process() is about to throw or has thrown the
\* error naming chunk k, and the final ledger file has not been written.
C1_AbortOnExhaustedChunk ==
  \A k \in exhausted :
    /\ \A n \in invoked : n <= k
    /\ rpc \in {"abort", "threw"}
    /\ rpc = "threw" => thrown = [kind |-> "ChunkFailed", chunk |-> k]
    /\ ledgerWrites = 0

\* chunk 2 of 3 used up its attempts and process() has thrown
C1_Witness ==
  /\ Len(chunks) = 3
  /\ exhausted = {2}
  /\ rpc = "threw"

\* C5 (as stated): an attempt whose output file exists and is non-empty after
\* the invocation is a success, whatever the exit status.
C5_Original ==
  (lastCall.chunk # 0 /\ lastCall.hasContent) => lastCall.chunk \in succeeded

\* C5 (amended): an attempt is a success exactly when the output file exists
\* and is non-empty after the invocation and the oracle exited with a status
\* from 0 to 127; with a status of 128 or more, or without a status (killed
\* by a signal), the attempt fails whatever the output file holds.
C5_SuccessIffContentAndStatusBelow128 ==
  lastCall.chunk # 0 =>
    (lastCall.chunk \in succeeded <=>
       (lastCall.hasContent /\ lastCall.status \in 0..127))

\* a non-zero exit with output counted as success
C5_Witness ==
  /\ lastCall.status = 127
  /\ lastCall.hasContent
  /\ lastCall.chunk \in succeeded

\* C6 (as stated): a chunk is declared failed only after it has been retried
\* maxRetries times (maxRetries attempts after the first one).
C6_Original ==
  \A k \in exhausted : lastCall.chunk = k /\ lastCall.attempt - 1 = maxRetries

\* C6 (amended): every attempt after the first is made for the same chunk with
\* the same contents as the attempt before it and after one sleep of
\* retryDelayMs; no chunk gets more than maxRetries attempts in total, and a
\* chunk is declared failed exactly when its maxRetries-th attempt has failed.
C6_RetrySameChunkUpToMaxAttempts ==
  /\ [][ (lastCall' # lastCall /\ lastCall'.attempt > 1) =>
           /\ lastCall'.chunk = lastCall.chunk
           /\ lastCall'.input = lastCall.input
           /\ lastCall'.attempt = lastCall.attempt + 1
           /\ lastCall'.waited = retryDelayMs ]_vars
  /\ [](lastCall.attempt <= maxRetries)
  /\ [](\A k \in exhausted :
          /\ lastCall.chunk = k
          /\ lastCall.attempt = maxRetries
          /\ k \notin succeeded)
  /\ []((rpc = "sleep") => (lastCall.attempt < maxRetries
                            /\ lastCall.chunk \notin succeeded))

\* a chunk declared failed after the default nine attempts
C6_Witness ==
  /\ maxRetries = DefaultMaxRetries
  /\ exhausted # {}
  /\ lastCall.attempt = DefaultMaxRetries
  /\ lastCall.waited = retryDelayMs

\* C7: the oracle is invoked for chunk n only when every chunk before n has
\* had a successful attempt, and invocations never go back to an earlier
\* chunk nor skip one.
C7_StrictChunkOrder ==
  /\ [](\A n \in invoked : \A m \in 1..(n - 1) : m \in succeeded)
  /\ [][ lastCall' # lastCall =>
           /\ lastCall'.chunk >= lastCall.chunk
           /\ lastCall'.chunk <= lastCall.chunk + 1
           /\ lastCall'.chunk = lastCall.chunk + 1 =>
                (lastCall.chunk = 0 \/ lastCall.chunk \in succeeded) ]_vars

\* chunk 2 is being retried after chunk 1 succeeded; chunk 3 is untouched
C7_Witness ==
  /\ Len(chunks) = 3
  /\ lastCall.chunk = 2
  /\ lastCall.attempt >= 2
  /\ 1 \in succeeded
  /\ 3 \notin invoked

PermutationsOf(seq) ==
  { [k \in 1..Len(seq) |-> seq[p[k]]] :
      p \in { q \in [1..Len(seq) -> 1..Len(seq)] :
                \A a, b \in 1..Len(seq) : a # b => q[a] # q[b] } }

\* all lines of the chunk output files, as they stand in the files
RawLines(files, fs) ==
  UNION { RangeOf(fs[n].content) : n \in { m \in RangeOf(files) : fs[m].exists } }

AllChunksSucceeded == chunks # <<>> /\ succeeded = 1..Len(chunks)

\* C8 (as stated): when every chunk has succeeded, the final ledger holds
\* exactly the distinct non-empty lines of the chunk output files, ascending.
C8_Original ==
  [][ (rpc = "merge" /\ rpc' # "merge" /\ AllChunksSucceeded) =>
        LET out == outputFile'.content
            n   == Len(out) - 1
        IN /\ ledgerWrites' = ledgerWrites + 1
           /\ n >= 0
           /\ { out[k] : k \in 1..n } = RawLines(tempFiles, tmpFs) \ { <<>> }
           /\ \A k \in 1..(n - 1) : StrLess(out[k], out[k + 1]) ]_vars

\* C8 (amended): when every chunk has succeeded and some line of the chunk
\* output files is not blank, the final ledger holds exactly the distinct
\* lines of the chunk output files after trimming surrounding whitespace,
\* blank lines dropped, each once, in strictly ascending code-unit order and
\* each followed by a newline, and it is the same whatever the order in which
\* the chunk files are merged; when every line is blank the merge throws and
\* the ledger is not written.
C8_MergeSortedDistinctTrimmed ==
  [][ (rpc = "merge" /\ rpc' # "merge" /\ AllChunksSucceeded) =>
        LET entries == { Trim(l) : l \in RawLines(tempFiles, tmpFs) } \ { <<>> }
            out     == outputFile'.content
            n       == Len(out) - 1
        IN IF entries = {}
           THEN /\ rpc' = "threw"
                /\ thrown'.kind = "NoEntries"
                /\ outputFile' = outputFile
           ELSE /\ rpc' = "returned"
                /\ outputFile'.exists
                /\ n = Cardinality(entries)
                /\ out[n + 1] = <<>>
                /\ { out[k] : k \in 1..n } = entries
                /\ \A k \in 1..(n - 1) : StrLess(out[k], out[k + 1])
                /\ \A perm \in PermutationsOf(tempFiles) :
                     MergedContent(perm, tmpFs) = out ]_vars

\* a ledger merged from three chunk outputs that differ
C8_Witness ==
  /\ rpc = "returned"
  /\ ledgerWrites = 1
  /\ Len(tempFiles) = 3
  /\ Len(outputFile.content) = 4

(***************************************************************************)
(* Properties of the report pipeline.                                      *)
(***************************************************************************)
DocKeys == {"prod", "dev"}

Distinct(seq) == \A i, j \in 1..Len(seq) : seq[i] = seq[j] => i = j

\* rows of a generated document that show identifier id
RowsOf(d, id) == {k \in 1..Len(d.rows) : d.rows[k].id = id}
\* rows whose identifier had no entry in the approval map at the call
AbsentRows(d) == {k \in 1..Len(d.rows) : d.rows[k].id \notin d.approved}
\* rows whose approval-reference cell is empty
EmptyCellRows(d) == {k \in 1..Len(d.rows) : d.rows[k].cq = Text("")}

OneRowPerIdentifier(d) ==
  /\ Len(d.rows) = Len(d.deps)
  /\ \A k \in 1..Len(d.deps) : Cardinality(RowsOf(d, d.deps[k])) = 1

\* C2 as stated: for a list of N distinct identifiers the document has exactly
\* N rows, one per identifier, and the call increments the unresolved counter
\* once per row whose approval-reference cell is empty.
C2_Original ==
  \A key \in DocKeys :
    (docs[key].called /\ Distinct(docs[key].deps))
      => /\ OneRowPerIdentifier(docs[key])
         /\ docs[key].increments = Cardinality(EmptyCellRows(docs[key]))

\* C2, amended: for a list of N distinct identifiers the document has exactly
\* N rows, one per identifier, and the call increments the unresolved counter
\* once per row whose identifier has no entry in the approval map; a row whose
\* entry holds an empty reference has an empty cell and is not counted.
C2_RowsAndIncrementsPerAbsentIdentifier ==
  \A key \in DocKeys :
    (docs[key].called /\ Distinct(docs[key].deps))
      => /\ OneRowPerIdentifier(docs[key])
         /\ docs[key].increments = Cardinality(AbsentRows(docs[key]))

\* a report of two distinct identifiers, one without an approval entry and one
\* approved with an empty reference
C2_Witness ==
  \E key \in DocKeys :
    /\ docs[key].called
    /\ Distinct(docs[key].deps)
    /\ Len(docs[key].deps) >= 2
    /\ AbsentRows(docs[key]) # {}
    /\ EmptyCellRows(docs[key]) \ AbsentRows(docs[key]) # {}

\* C3 as stated: when the approval map already holds X as an approved ledger
\* line for X is parsed, the map is left unchanged and X is appended to the log
\* as the next entry of a 1-based numbered list under the 'UNUSED Excludes'
\* heading.
C3_Original ==
  [][(/\ bpc = "approved"
      /\ lineIdx <= Len(approvedLines)
      /\ IsWellFormed(approvedLines[lineIdx])
      /\ MapHas(depsToCQ, ParseCoordinate(approvedLines[lineIdx].coord).identifier))
     => (/\ depsToCQ' = depsToCQ
         /\ Len(log') = Len(log) + 1
         /\ log'[1] = Heading(<<"UNUSED Excludes">>)
         /\ \A k \in 2..Len(log') :
              /\ log'[k].kind = "item"
              /\ log'[k].n = k - 1
         /\ log'[Len(log')].id =
              ParseCoordinate(approvedLines[lineIdx].coord).identifier)]_vars

\* C4 as stated: in every adapter both exclusion files are loaded into the
\* approval map before the ledger is parsed.
C4_Original ==
  \A k \in 1..Len(events) :
    events[k] = "parse"
      => /\ \E i \in 1..(k - 1) : events[i] = "exclProd"
         /\ \E j \in 1..(k - 1) : events[j] = "exclDev"

\* C9: when the unresolved count is greater than zero after both reports have
\* been generated, the bump-deps script exits non-zero and the run ends with a
\* non-zero exit code, in generate mode and in check mode.
C9_UnresolvedFailsRun ==
  (docs.prod.called /\ docs.dev.called /\ unresolvedNumber > 0)
    => /\ bpc \in {"exited", "handleResults", "done"} => bumpExit \notin {0, Running}
       /\ bpc = "done" => exitCode \notin {0, Running}

\* a check-mode run with unresolved dependencies and up-to-date reports has ended
C9_Witness ==
  /\ bpc = "done"
  /\ check
  /\ docs.prod.called /\ docs.dev.called
  /\ unresolvedNumber > 0
  /\ result.differProd = "" /\ result.differDev = ""
  /\ exitCode = 1

\* entries of the list a report was generated from that had no approval then
UnresolvedIn(d) == Cardinality({k \in 1..Len(d.deps) : d.deps[k] \notin d.approved})

\* C10: once the production report and then the development report have been
\* generated, the unresolved count is the number of unresolved entries of the
\* production list plus the number of unresolved entries of the development
\* list.
C10_CountIsSumOfBothReports ==
  (docs.prod.called /\ docs.dev.called)
    => unresolvedNumber = UnresolvedIn(docs.prod) + UnresolvedIn(docs.dev)

\* both reports have unresolved entries and the count has been read
C10_Witness ==
  /\ bpc = "exited"
  /\ UnresolvedIn(docs.prod) > 0
  /\ UnresolvedIn(docs.dev) > 0
  /\ unresolvedNumber = UnresolvedIn(docs.prod) + UnresolvedIn(docs.dev)

\* identifiers the package manager supplied to the adapter
SuppliedIds == RangeOf(inProd) \cup RangeOf(inDev)

\* the report shows id in a row with an empty approval cell, counted as unresolved
HasUnresolvedRow(d, id) ==
  \E k \in 1..Len(d.rows) :
    /\ d.rows[k].id = id
    /\ d.rows[k].cq = Text("")
    /\ k \in AbsentRows(d)

\* C11 as stated: once both reports are generated, every identifier the package
\* manager supplied that is neither approved in the ledger nor listed in an
\* exclusion file has a row with an empty approval cell in the production or
\* the development report and is counted as unresolved.
C11_Original ==
  (docs.prod.called /\ docs.dev.called)
    => \A id \in SuppliedIds :
         id \notin DOMAIN depsToCQ
           => /\ HasUnresolvedRow(docs.prod, id) \/ HasUnresolvedRow(docs.dev, id)
              /\ unresolvedNumber > 0

\* C12 as stated: in check mode, a detected difference between a freshly
\* generated report (prod.md or dev.md) and the committed one makes the process
\* exit with code 1.
C12_Original ==
  (/\ bpc = "done"
   /\ check
   /\ result.differProd = "differ" \/ result.differDev = "differ")
    => exitCode = 1

\* the ledger holds a line for id with at least four fields, a coordinate of at
\* least five parts and the status "approved"
HasApprovedLine(fileData, id) ==
  \E k \in 1..Len(fileData) :
    /\ Len(fileData[k].rest) >= 3
    /\ fileData[k].rest[2] = "approved"
    /\ Len(fileData[k].coord) >= 5
    /\ ParseCoordinate(fileData[k].coord).identifier = id

PhysicalPackage(coord) == IF coord[1] = CQ THEN Tail(coord) ELSE coord

\* lines of the ledger the parse normalizes to an identifier
NormalizedLines(fileData) ==
  {k \in 1..Len(fileData) : Len(PhysicalPackage(fileData[k].coord)) >= 5}

\* C14 as stated: two ledger coordinates that differ in ecosystem, groupId or
\* scope, name or version are never normalized to the same identifier.
C14_Original ==
  \A i, j \in NormalizedLines(ledgerRead) :
    PhysicalPackage(ledgerRead[i].coord) # PhysicalPackage(ledgerRead[j].coord)
      => ParseCoordinate(ledgerRead[i].coord).identifier
           # ParseCoordinate(ledgerRead[j].coord).identifier

RECURSIVE Flatten(_)
\* the chunks one after the other
Flatten(seqs) == IF seqs = <<>> THEN <<>> ELSE Head(seqs) \o Flatten(Tail(seqs))

\* C15: the chunks, concatenated in order, are the identifier list; every chunk
\* holds at least one and at most batchSize entries, and every chunk but the
\* last holds exactly batchSize entries.
C15_ChunksPartitionTheList ==
  chunks # <<>>
    => /\ Flatten(chunks) = getAllDependencies(parserOutput)
       /\ \A i \in 1..Len(chunks) :
            /\ Len(chunks[i]) >= 1
            /\ Len(chunks[i]) <= batchSize
            /\ i < Len(chunks) => Len(chunks[i]) = batchSize

\* a list split into several chunks, the last one smaller than the batch size
C15_Witness ==
  /\ Len(chunks) >= 2
  /\ Len(chunks[Len(chunks)]) < batchSize
  /\ Flatten(chunks) = getAllDependencies(parserOutput)

\* the ledger of the run is absent after the resolver has run
LedgerAbsent ==
  IF adapter = "mvn"
  THEN \/ Len(inProd) > 0 /\ ~mvnFiles.prod.exists
       \/ Len(inDev) > 0 /\ ~mvnFiles.dev.exists
  ELSE dependenciesFile = "absent"

\* the ledger of the run has length zero after the resolver has run
LedgerZeroLength ==
  IF adapter = "mvn"
  THEN \/ Len(inProd) > 0 /\ mvnFiles.prod.exists /\ mvnFiles.prod.lines = <<EmptyLine>>
       \/ Len(inDev) > 0 /\ mvnFiles.dev.exists /\ mvnFiles.dev.lines = <<EmptyLine>>
  ELSE dependenciesFile = "empty"

\* the messages that tell the user to check the network connection
NetworkInstructions == {EmptyMsg, ProdEmptyMsg, DevEmptyMsg}

\* no step of the report generation has run
ReportNotStarted ==
  /\ events = <<>>
  /\ ~docs.prod.called
  /\ ~docs.dev.called
  /\ outFiles = [prod |-> NoOutput, dev |-> NoOutput, problems |-> NoOutput]
  /\ bumpExit = Running

MalformedLine(lineData) ==
  \/ LineLength(lineData) < 4
  \/ Len(PhysicalPackage(lineData.coord)) < 5

\* the keys a step adds to a map or gives another value
ChangedKeys(before, after) ==
  {id \in DOMAIN after : id \notin DOMAIN before \/ after[id] # before[id]}

\* C17 as stated: a malformed ledger line changes neither the approval map nor
\* the license map, and the lines after it are still processed.
C17_Original ==
  /\ [][(bpc = "approved" /\ lineIdx <= Len(approvedLines)
           /\ MalformedLine(approvedLines[lineIdx]))
          => (depsToCQ' = depsToCQ /\ lineIdx' = lineIdx + 1)]_vars
  /\ [][bpc = "parse"
          => \A id \in ChangedKeys(allDependenciesMap, allDependenciesMap') :
               \E k \in 1..Len(ledgerRead') :
                 /\ ~MalformedLine(ledgerRead'[k])
                 /\ ParseCoordinate(ledgerRead'[k].coord).identifier = id]_vars

\* the lines of a file whose coordinate is the legacy form cq/ + c of a
\* coordinate c with at least five segments
LegacyLines(fileData) ==
  {k \in 1..Len(fileData) :
     fileData[k].coord[1] = CQ /\ Len(fileData[k].coord) >= 6}

\* the same line with the new-form coordinate
NewForm(lineData) == Line(Tail(lineData.coord), lineData.rest)

\* C18 as stated: a line with the legacy coordinate cq/ + c and the same line
\* with the coordinate c yield the same identifier, the same license-map entry
\* and the same approval-map entry.
C18_Original ==
  /\ \A k \in LegacyLines(ledgerRead) :
       LET old == ledgerRead[k]
           st == [map |-> EmptyMap, log |-> <<>>, n |-> 0]
       IN /\ ParseCoordinate(old.coord) = ParseCoordinate(NewForm(old).coord)
          /\ LicenseStep(old, EmptyMap) = LicenseStep(NewForm(old), EmptyMap)
          /\ ApprovedStep(old, st) = ApprovedStep(NewForm(old), st)
  /\ (adapter = "mvn" /\ events # <<>>)
       => \A k \in LegacyLines(mvnFiles.prod.lines) :
            LET old == mvnFiles.prod.lines[k]
            IN /\ parseMavenDependencyLine(old) = parseMavenDependencyLine(NewForm(old))
               /\ \E i \in 1..Len(prodDeps) :
                    prodDeps[i] = parseMavenDependencyLine(NewForm(old))

\* C19 as stated: parsing the ledger never erases an already-set field of an
\* existing license record; a field changes only to a non-empty value.
C19_Original ==
  [][bpc = "parse"
       => \A id \in DOMAIN allDependenciesMap :
            /\ id \in DOMAIN allDependenciesMap'
            /\ allDependenciesMap'[id].License # allDependenciesMap[id].License
                 => allDependenciesMap'[id].License # ""
            /\ allDependenciesMap'[id].URL # allDependenciesMap[id].URL
                 => allDependenciesMap'[id].URL # ""]_vars

\* C20 as stated: once both exclusion files are loaded and both reports are
\* generated, no row of either report for an identifier listed in an exclusion
\* file is unresolved.
C20_Original ==
  (docs.prod.called /\ docs.dev.called)
    => \A key \in {"prod", "dev"} :
         \A k \in 1..Len(docs[key].rows) :
           docs[key].rows[k].id \in excludedIds
             => /\ docs[key].rows[k].cq # Text("")
                /\ k \notin AbsentRows(docs[key])

\* the identifiers parseDependenciesFile is about to report as unused excludes
UnusedExcludes == {log[k].id : k \in {i \in 1..Len(log) : log[i].kind = "item"}}

\* C21 as stated: every identifier the ledger parse reports as an unused
\* exclude was listed in a manual exclusion file.
C21_Original ==
  [][(bpc = "approved" /\ logs' # logs) => UnusedExcludes \subseteq excludedIds]_vars

\* the lines of the ledger with a coordinate the parser normalizes and a
\* license field
LicenseLines(fileData) ==
  {k \in 1..Len(fileData) :
     LineLength(fileData[k]) >= 2 /\ Len(fileData[k].coord) >= 5}

\* the identifier the parser gives line k
LineId(fileData, k) == ParseCoordinate(fileData[k].coord).identifier

\* no later line of the ledger records a license for the same identifier
LastLicenseLine(fileData, k) ==
  \A j \in LicenseLines(fileData) : j > k => LineId(fileData, j) # LineId(fileData, k)

C23_Original ==
  \A key \in {"prod", "dev"} :
    docs[key].called
      => \A i, j \in 1..Len(docs[key].rows) :
           i < j => StrLess(docs[key].rows[i].id, docs[key].rows[j].id)

\* C24 as stated: when a generate-mode run that logged unresolved dependencies
\* or unused excludes has ended, $DEPS_DIR/problems.md of the mounted project
\* holds that log.
C24_Original ==
  (epc = "exited" /\ ~check /\ logs # <<>>)
    => /\ projectDeps.problems.exists
       /\ projectDeps.problems.body = logs

\* C25 as stated: a run in check mode puts nothing under the mounted project
\* directory, whatever its outcome and with or without debug mode.
C25_Original == check => projectDeps = NoProjectWrites

\* process() has merged the chunk results and returned
MergedAndReturned == rpc = "returned" /\ ledgerWrites = 1

\* C26 as stated: after a successful merge every per-chunk temporary file of
\* the run, the output file and the input file of each chunk, is deleted when
\* debug mode is off and retained when it is on.
C26_Original ==
  MergedAndReturned
    => \A n \in RangeOf(tempFiles) :
         IF debug
         THEN tmpFs[n].exists /\ inputFs[n].exists
         ELSE ~tmpFs[n].exists /\ ~inputFs[n].exists

\* C26: after a successful merge the output file of every chunk is deleted
\* when debug mode is off and retained when it is on; the input file of every
\* chunk is deleted in both modes.
C26_OutputFilesFollowDebug ==
  MergedAndReturned
    => \A n \in RangeOf(tempFiles) :
         /\ tmpFs[n].exists <=> debug
         /\ ~inputFs[n].exists

\* a merged run of several chunks without debug mode: no temporary file is left
C26_Witness ==
  /\ MergedAndReturned
  /\ ~debug
  /\ Len(tempFiles) >= 2
  /\ invoked = RangeOf(tempFiles)
  /\ \A n \in RangeOf(tempFiles) : ~tmpFs[n].exists /\ ~inputFs[n].exists

\* C27 as stated: the Logger a step constructs reports empty logs and an
\* unresolved count of zero, whatever was logged or counted before.
C27_Original ==
  [][\A new \in 1..MaxLoggers :
       (Len(loggers) + 1 = new /\ Len(loggers') = new)
         => /\ getLogs(new)' = <<>>
            /\ getUnresolvedNumber(new)' = 0]_vars

\* C28 as stated: an attempt is counted as a success only if the oracle
\* invocation of that attempt wrote the chunk's output file.
C28_Original ==
  [][succeeded' # succeeded => lastCall'.wrote]_vars

\* C29 as stated: when process() has returned without throwing, the ledger at
\* the output path was written by that call and holds at least one entry.
C29_Original ==
  rpc = "returned"
    => /\ ledgerWrites = 1
       /\ outputFile.exists
       /\ Len(TrimmedLines(outputFile.content)) >= 1
       /\ outputFile # StaleLedger

\* the splitting loop has been left: process() returned early or holds the chunks
SplitLeft == rpc \in {"returned", "loop"}

\* C30 as stated: for every batch size the entrypoint accepts, 0 included,
\* splitting the dependency list comes to an end, and every chunk it yields
\* holds at least one dependency.
C30_Original ==
  /\ <>SplitLeft
  /\ [](\A k \in 1..Len(chunks) : Len(chunks[k]) >= 1)

====
